---- MODULE Spec2Model ----
(***************************************************************************)
(* Model of docs/main.go: the Lambda handler that fetches a document from  *)
(* the docstore and returns it either verbatim (docId contains ".") or     *)
(* rendered from markdown and wrapped in the stored page template.         *)
(*                                                                         *)
(* Byte strings are sequences of tokens.  A token stands for one or more   *)
(* bytes (ByteLen); BigRun stands for 65535 bytes of ordinary text, so the *)
(* bufio.Scanner token limit used by firstLine is reachable.               *)
(* The docstore is an external service: every GetDoc / ReadAll call draws  *)
(* its outcome from what the store may hold or fail with at that moment.   *)
(***************************************************************************)
EXTENDS Integers, Sequences, FiniteSets, TLC

\* ---------------------------------------------------------------- bounds
MaxLen == 3        \* tokens in a stored document
MaxTmplLen == 2    \* tokens in a stored template (the scenario template is added)

\* ------------------------------------------------------------- constants
MaxScanTokenSize == 65536

Nil == "nil"
None == <<>>
Some(x) == <<x>>

SeqsUpTo(S, n) == UNION {[1..k -> S] : k \in 0..n}

\* ------------------------------------------------------------ byte strings
BigRun == "x*65535"
LF == "\n"
CR == "\r"
Dot == "."

ByteLen(tok) ==
  IF tok = BigRun THEN MaxScanTokenSize - 1
  ELSE IF tok = "# " THEN 2
  ELSE 1

RECURSIVE Size(_)
Size(s) == IF s = <<>> THEN 0 ELSE ByteLen(Head(s)) + Size(Tail(s))

\* strings.Contains on token sequences
Contains(s, sub) ==
  \E i \in 0..(Len(s) - Len(sub)) :
    \A j \in 1..Len(sub) : s[i + j] = sub[j]

tmplDocName == <<"doc-template", ".", "html">>

\* ---------------------------------------------------------------- firstLine
\* index of the first LF in b, or 0
IndexLF(b) ==
  IF \E i \in 1..Len(b) : b[i] = LF
  THEN CHOOSE i \in 1..Len(b) : b[i] = LF /\ \A j \in 1..(i - 1) : b[j] # LF
  ELSE 0

dropCR(data) ==
  IF Len(data) > 0 /\ data[Len(data)] = CR
  THEN SubSeq(data, 1, Len(data) - 1)
  ELSE data

\* bufio.Scanner.Scan with ScanLines on the whole content: [ok, token]
ScanFirst(b) ==
  LET i == IndexLF(b)
      line == IF i = 0 THEN b ELSE SubSeq(b, 1, i - 1)
  IN IF b = <<>> THEN [ok |-> FALSE, token |-> <<>>]
     ELSE IF Size(line) >= MaxScanTokenSize THEN [ok |-> FALSE, token |-> <<>>]
     ELSE [ok |-> TRUE, token |-> dropCR(line)]

firstLine(b) == ScanFirst(b).token

\* ------------------------------------------------------------ markdown.ToHTML
\* lines of a document (split on LF; a final LF ends the last line)
RECURSIVE SplitLines(_)
SplitLines(b) ==
  LET i == IndexLF(b)
  IN IF b = <<>> THEN <<>>
     ELSE IF i = 0 THEN <<b>>
     ELSE <<SubSeq(b, 1, i - 1)>> \o SplitLines(SubSeq(b, i + 1, Len(b)))

IsBlank(line) == line = <<>>
IsHeading(line) == Len(line) > 0 /\ line[1] = "# "

\* blocks of rendered HTML; para is the open paragraph's text (or <<>>)
RECURSIVE RenderBlocks(_, _)
RenderBlocks(lines, para) ==
  LET close == IF para = <<>> THEN <<>> ELSE << <<"<p>">> \o para \o <<"</p>">> >>
  IN IF lines = <<>> THEN close
     ELSE LET l == Head(lines)
          IN IF IsBlank(l) THEN close \o RenderBlocks(Tail(lines), <<>>)
             ELSE IF IsHeading(l)
               THEN close \o << <<"<h1>">> \o Tail(l) \o <<"</h1>">> >>
                          \o RenderBlocks(Tail(lines), <<>>)
             ELSE RenderBlocks(Tail(lines),
                               IF para = <<>> THEN l ELSE para \o <<LF>> \o l)

RECURSIVE JoinBlocks(_)
JoinBlocks(bs) ==
  IF bs = <<>> THEN <<>>
  ELSE IF Len(bs) = 1 THEN Head(bs) \o <<LF>>
  ELSE Head(bs) \o <<LF, LF>> \o JoinBlocks(Tail(bs))

ToHTML(doc) == JoinBlocks(RenderBlocks(SplitLines(doc), <<>>))

\* ------------------------------------------------------- time.Format(RFC850)
DigitCh == <<"0", "1", "2", "3", "4", "5", "6", "7", "8", "9">>

RECURSIVE Itoa(_)
Itoa(n) ==
  IF n < 10 THEN <<DigitCh[n + 1]>>
  ELSE Itoa(n \div 10) \o <<DigitCh[(n % 10) + 1]>>

Pad2(n) == <<DigitCh[((n \div 10) % 10) + 1], DigitCh[(n % 10) + 1]>>

DayNames == <<"Sunday", "Monday", "Tuesday", "Wednesday", "Thursday", "Friday", "Saturday">>
MonthAbbr == <<"Jan", "Feb", "Mar", "Apr", "May", "Jun", "Jul", "Aug", "Sep", "Oct", "Nov", "Dec">>
MonthOffset == <<0, 3, 2, 5, 0, 3, 5, 1, 4, 6, 2, 4>>

\* day of week of a civil date, 0 = Sunday
Weekday(t) ==
  LET y == IF t.month < 3 THEN t.year - 1 ELSE t.year
  IN (y + (y \div 4) - (y \div 100) + (y \div 400) + MonthOffset[t.month] + t.day) % 7

\* layout "Monday, 02-Jan-06 15:04:05 MST"
FormatRFC850(t) ==
  <<DayNames[Weekday(t) + 1], ",", " ">> \o Pad2(t.day) \o <<"-", MonthAbbr[t.month], "-">>
    \o Pad2(t.year % 100) \o <<" ">> \o Pad2(t.hour) \o <<":">> \o Pad2(t.min)
    \o <<":">> \o Pad2(t.sec) \o <<" ", t.zone>>

\* --------------------------------------------------------------- text/template
FieldTokens == {"{{.Title}}", "{{.DocBody}}", "{{.Timestamp}}", "{{.Version}}", "{{.Missing}}"}
Unclosed == "{{"

FieldName(tok) ==
  CASE tok = "{{.Title}}" -> "Title"
    [] tok = "{{.DocBody}}" -> "DocBody"
    [] tok = "{{.Timestamp}}" -> "Timestamp"
    [] tok = "{{.Version}}" -> "Version"
    [] OTHER -> "Missing"

Node(tok) ==
  IF tok \in FieldTokens THEN [type |-> "field", val |-> FieldName(tok)]
  ELSE [type |-> "text", val |-> tok]

\* template.New("docPage").Parse(src): [tree, err]
Parse(src) ==
  IF \E i \in 1..Len(src) : src[i] = Unclosed
  THEN [tree |-> <<>>, err |-> "template: docPage: unclosed action"]
  ELSE [tree |-> [i \in 1..Len(src) |-> Node(src[i])], err |-> Nil]

\* the printed form of one field of docMetadata
FieldValue(meta, name) ==
  CASE name = "Title" -> meta.Title
    [] name = "DocBody" -> meta.DocBody
    [] name = "Timestamp" -> meta.Timestamp
    [] name = "Version" -> Itoa(meta.Version)

\* tmpl.Execute(&b, meta): nodes are written to b one by one; an unknown
\* field stops execution with what was already written left in b
RECURSIVE ExecNodes(_, _, _)
ExecNodes(tree, meta, out) ==
  IF tree = <<>> THEN [out |-> out, err |-> Nil]
  ELSE LET n == Head(tree)
       IN IF n.type = "text" THEN ExecNodes(Tail(tree), meta, Append(out, n.val))
          ELSE IF n.val \in {"Title", "DocBody", "Timestamp", "Version"}
            THEN ExecNodes(Tail(tree), meta, out \o FieldValue(meta, n.val))
          ELSE [out |-> out, err |-> "template: docPage: can't evaluate field"]

Execute(tree, meta) == ExecNodes(tree, meta, <<>>)

\* ------------------------------------------------------ what the store may hold
ContentAlphabet == {"# ", "a", LF, CR, BigRun}
Contents == SeqsUpTo(ContentAlphabet, MaxLen)

TmplAlphabet == {"{{.Title}}", "{{.Missing}}", Unclosed, "t"}
ScenarioTmpl ==
  <<"<title>", "{{.Title}}", "</title>", "{{.DocBody}}", "v", "{{.Version}}", " ", "{{.Timestamp}}">>
Templates == SeqsUpTo(TmplAlphabet, MaxTmplLen) \cup {ScenarioTmpl}

RevMetas ==
  { [Id |-> 3,
     Timestamp |-> [year |-> 2021, month |-> 5, day |-> 4,
                    hour |-> 10, min |-> 0, sec |-> 0, zone |-> "UTC"]],
    [Id |-> 12,
     Timestamp |-> [year |-> 1999, month |-> 12, day |-> 31,
                    hour |-> 23, min |-> 59, sec |-> 59, zone |-> "MST"]] }

StoredBodies(id) == IF id = tmplDocName THEN Templates ELSE Contents

\* a revision handle returned by ds.GetDoc: a reader over body, with Metadata()
Revisions(id) == {[body |-> c, meta |-> m] : c \in StoredBodies(id), m \in RevMetas}

\* the template's revision handle; getTemplate only reads its body
TemplateRevisions == {[body |-> c] : c \in Templates}

GetDocErrors == {"NotFound", "StorageUnavailable"}
ReadErrors == {"unexpected EOF"}

\* request.PathParameters["docId"]; an absent parameter reads as ""
DocIds ==
  { <<>>, <<"intro">>, <<"notes", Dot, "txt">>, <<"v1", Dot, "2-notes">>, <<Dot, "hidden">>,
    tmplDocName }

\* ------------------------------------------------------------------- responses
ContentTypeHTML == {<<"Content-Type", "text/html">>}

\* Response{StatusCode: code}: every other field keeps its zero value
StatusOnly(code) ==
  [StatusCode |-> code, Headers |-> {}, Body |-> <<>>, IsBase64Encoded |-> FALSE]

ZeroReturn == [resp |-> StatusOnly(0), err |-> Nil]

\* variant: a failed document fetch answered as an internal error
GetDocErrorReturn_AsInternal(e) == [resp |-> StatusOnly(500), err |-> e]

GetDocErrorReturn(e) == [resp |-> StatusOnly(404), err |-> Nil]

\* variant: the read error is swallowed
ReadErrorReturn_NilErr(e) == [resp |-> StatusOnly(500), err |-> Nil]

ReadErrorReturn(e) == [resp |-> StatusOnly(500), err |-> e]

\* variant: only a trailing "." marks a raw document
IsRaw_SuffixOnly(id) == Len(id) > 0 /\ id[Len(id)] = Dot

IsRaw(id) == Contains(id, <<Dot>>)

\* variant: the raw branch renders the document
RawReturn_Rendered(d) ==
  [resp |-> [StatusCode |-> 200, Headers |-> ContentTypeHTML, Body |-> ToHTML(d),
             IsBase64Encoded |-> FALSE],
   err |-> Nil]

RawReturn(d) ==
  [resp |-> [StatusCode |-> 200, Headers |-> ContentTypeHTML, Body |-> d,
             IsBase64Encoded |-> FALSE],
   err |-> Nil]

TemplateErrorReturn(e) == [resp |-> StatusOnly(500), err |-> e]

docMetadata(d, html, r) ==
  [Title |-> firstLine(d), DocBody |-> html,
   Timestamp |-> FormatRFC850(r.meta.Timestamp), Version |-> r.meta.Id]

\* variant: what Execute had written is sent with the failure
ExecErrorReturn_Partial(buf, e) ==
  [resp |-> [StatusCode |-> 500, Headers |-> {}, Body |-> buf, IsBase64Encoded |-> FALSE],
   err |-> e]

ExecErrorReturn(buf, e) == [resp |-> StatusOnly(500), err |-> e]

\* variant: the page is returned without its Content-Type header
PageReturn_NoHeader(buf) ==
  [resp |-> [StatusCode |-> 200, Headers |-> {}, Body |-> buf, IsBase64Encoded |-> FALSE],
   err |-> Nil]

PageReturn(buf) ==
  [resp |-> [StatusCode |-> 200, Headers |-> ContentTypeHTML, Body |-> buf,
             IsBase64Encoded |-> FALSE],
   err |-> Nil]

\* log.Printf calls made on a failed ds.GetDoc / ioutil.ReadAll of the document
GetDocErrorLog(e) == << <<"GetDoc error: %v", e>> >>
ReadErrorLog(e) == << <<"ReadAll error: %v", e>> >>
\* log.Printf calls made on a getTemplate / tmpl.Execute failure: none
TemplateErrorLog(e) == <<>>
ExecErrorLog(e) == <<>>

\* ------------------------------------------------------------------------ state
VARIABLES
  pc,          \* position of the invocation: "idle", a call site, or "done"
  docId,       \* request.PathParameters["docId"]
  rev,         \* Handler: rev (None before ds.GetDoc returned it)
  doc,         \* Handler: doc
  parsed,      \* Handler: parsed
  tmplDoc,     \* getTemplate: tmplDoc
  tmplBytes,   \* getTemplate: tmplBytes
  tmpl,        \* Handler: tmpl
  meta,        \* Handler: meta
  b,           \* Handler: b (bytes.Buffer)
  err,         \* the err variable last assigned
  ret,         \* the (Response, error) pair returned to the Lambda runtime
  logs,        \* log.Printf entries of this invocation
  fetches,     \* ids passed to ds.GetDoc by this invocation, in order
  responses    \* number of return statements executed by this invocation

vars == <<pc, docId, rev, doc, parsed, tmplDoc, tmplBytes, tmpl, meta, b, err, ret,
          logs, fetches, responses>>

locals == <<rev, doc, parsed, tmplDoc, tmplBytes, tmpl, meta, b>>

Init ==
  /\ pc = "idle"
  /\ docId = <<>>
  /\ rev = None /\ doc = None /\ parsed = None
  /\ tmplDoc = None /\ tmplBytes = None /\ tmpl = None
  /\ meta = None /\ b = None
  /\ err = Nil
  /\ ret = ZeroReturn
  /\ logs = <<>>
  /\ fetches = <<>>
  /\ responses = 0

\* lambda.Start invokes Handler with a request; docId is read from the path
Invoke ==
  /\ pc = "idle"
  /\ \E id \in DocIds : docId' = id
  /\ rev' = None /\ doc' = None /\ parsed' = None
  /\ tmplDoc' = None /\ tmplBytes' = None /\ tmpl' = None
  /\ meta' = None /\ b' = None
  /\ err' = Nil
  /\ ret' = ZeroReturn
  /\ logs' = <<>>
  /\ fetches' = <<>>
  /\ responses' = 0
  /\ pc' = "GetDoc"

\* rev, err := ds.GetDoc(docId) succeeds
HandlerGetDocOk ==
  /\ pc = "GetDoc"
  /\ fetches' = Append(fetches, docId)
  /\ \E r \in Revisions(docId) : rev' = Some(r)
  /\ err' = Nil
  /\ pc' = "ReadAll"
  /\ UNCHANGED <<docId, doc, parsed, tmplDoc, tmplBytes, tmpl, meta, b, ret, logs, responses>>

\* rev, err := ds.GetDoc(docId) fails: log, return
HandlerGetDocFail ==
  /\ pc = "GetDoc"
  /\ fetches' = Append(fetches, docId)
  /\ \E e \in GetDocErrors :
       /\ err' = e
       /\ logs' = logs \o GetDocErrorLog(e)
       /\ ret' = GetDocErrorReturn(e)
  /\ responses' = responses + 1
  /\ pc' = "done"
  /\ UNCHANGED <<docId, locals>>

\* doc, err := ioutil.ReadAll(rev) succeeds
HandlerReadAllOk ==
  /\ pc = "ReadAll"
  /\ doc' = Some(rev[1].body)
  /\ err' = Nil
  /\ pc' = "Contains"
  /\ UNCHANGED <<docId, rev, parsed, tmplDoc, tmplBytes, tmpl, meta, b, ret, logs,
                 fetches, responses>>

\* doc, err := ioutil.ReadAll(rev) fails: log, return
HandlerReadAllFail ==
  /\ pc = "ReadAll"
  /\ \E e \in ReadErrors :
       /\ err' = e
       /\ logs' = logs \o ReadErrorLog(e)
       /\ ret' = ReadErrorReturn(e)
  /\ responses' = responses + 1
  /\ pc' = "done"
  /\ UNCHANGED <<docId, locals, fetches>>

\* strings.Contains(docId, "."): return the document as it is
HandlerRaw ==
  /\ pc = "Contains"
  /\ IsRaw(docId)
  /\ ret' = RawReturn(doc[1])
  /\ responses' = responses + 1
  /\ pc' = "done"
  /\ UNCHANGED <<docId, locals, err, logs, fetches>>

\* parsed := markdown.ToHTML(doc, nil, nil)
HandlerToHTML ==
  /\ pc = "Contains"
  /\ ~IsRaw(docId)
  /\ parsed' = Some(ToHTML(doc[1]))
  /\ pc' = "getTemplate"
  /\ UNCHANGED <<docId, rev, doc, tmplDoc, tmplBytes, tmpl, meta, b, err, ret, logs,
                 fetches, responses>>

\* getTemplate: tmplDoc, err := ds.GetDoc(tmplDocName) succeeds
getTemplateGetDocOk ==
  /\ pc = "getTemplate"
  /\ fetches' = Append(fetches, tmplDocName)
  /\ \E r \in TemplateRevisions : tmplDoc' = Some(r)
  /\ err' = Nil
  /\ pc' = "getTemplateReadAll"
  /\ UNCHANGED <<docId, rev, doc, parsed, tmplBytes, tmpl, meta, b, ret, logs, responses>>

\* getTemplate: ds.GetDoc(tmplDocName) fails; Handler returns on the error
getTemplateGetDocFail ==
  /\ pc = "getTemplate"
  /\ fetches' = Append(fetches, tmplDocName)
  /\ \E e \in GetDocErrors :
       /\ err' = e
       /\ logs' = logs \o TemplateErrorLog(e)
       /\ ret' = TemplateErrorReturn(e)
  /\ responses' = responses + 1
  /\ pc' = "done"
  /\ UNCHANGED <<docId, locals>>

\* getTemplate: tmplBytes, err := ioutil.ReadAll(tmplDoc) succeeds
getTemplateReadAllOk ==
  /\ pc = "getTemplateReadAll"
  /\ tmplBytes' = Some(tmplDoc[1].body)
  /\ err' = Nil
  /\ pc' = "Parse"
  /\ UNCHANGED <<docId, rev, doc, parsed, tmplDoc, tmpl, meta, b, ret, logs, fetches,
                 responses>>

\* getTemplate: ioutil.ReadAll(tmplDoc) fails; Handler returns on the error
getTemplateReadAllFail ==
  /\ pc = "getTemplateReadAll"
  /\ \E e \in ReadErrors :
       /\ err' = e
       /\ logs' = logs \o TemplateErrorLog(e)
       /\ ret' = TemplateErrorReturn(e)
  /\ responses' = responses + 1
  /\ pc' = "done"
  /\ UNCHANGED <<docId, locals, fetches>>

\* getTemplate: template.New("docPage").Parse(string(tmplBytes)) succeeds
getTemplateParseOk ==
  /\ pc = "Parse"
  /\ Parse(tmplBytes[1]).err = Nil
  /\ tmpl' = Some(Parse(tmplBytes[1]).tree)
  /\ err' = Nil
  /\ pc' = "Execute"
  /\ UNCHANGED <<docId, rev, doc, parsed, tmplDoc, tmplBytes, meta, b, ret, logs, fetches,
                 responses>>

\* getTemplate: Parse fails; Handler returns on the error
getTemplateParseFail ==
  /\ pc = "Parse"
  /\ Parse(tmplBytes[1]).err # Nil
  /\ err' = Parse(tmplBytes[1]).err
  /\ logs' = logs \o TemplateErrorLog(err')
  /\ ret' = TemplateErrorReturn(err')
  /\ responses' = responses + 1
  /\ pc' = "done"
  /\ UNCHANGED <<docId, locals, fetches>>

\* meta := docMetadata{...}; err = tmpl.Execute(&b, meta); return
HandlerExecute ==
  /\ pc = "Execute"
  /\ LET m == docMetadata(doc[1], parsed[1], rev[1])
         x == Execute(tmpl[1], m)
     IN /\ meta' = Some(m)
        /\ b' = Some(x.out)
        /\ err' = x.err
        /\ IF x.err # Nil
           THEN /\ logs' = logs \o ExecErrorLog(x.err)
                /\ ret' = ExecErrorReturn(x.out, x.err)
           ELSE /\ logs' = logs
                /\ ret' = PageReturn(x.out)
  /\ responses' = responses + 1
  /\ pc' = "done"
  /\ UNCHANGED <<docId, rev, doc, parsed, tmplDoc, tmplBytes, tmpl, fetches>>

\* the Lambda runtime has taken the returned pair and the invocation's frame is
\* gone; the next request may arrive
Return ==
  /\ pc = "done"
  /\ pc' = "idle"
  /\ docId' = <<>>
  /\ rev' = None /\ doc' = None /\ parsed' = None
  /\ tmplDoc' = None /\ tmplBytes' = None /\ tmpl' = None
  /\ meta' = None /\ b' = None
  /\ err' = Nil
  /\ ret' = ZeroReturn
  /\ logs' = <<>>
  /\ fetches' = <<>>
  /\ responses' = 0

Next ==
  \/ Invoke
  \/ HandlerGetDocOk
  \/ HandlerGetDocFail
  \/ HandlerReadAllOk
  \/ HandlerReadAllFail
  \/ HandlerRaw
  \/ HandlerToHTML
  \/ getTemplateGetDocOk
  \/ getTemplateGetDocFail
  \/ getTemplateReadAllOk
  \/ getTemplateReadAllFail
  \/ getTemplateParseOk
  \/ getTemplateParseFail
  \/ HandlerExecute
  \/ Return

Spec == Init /\ [][Next]_vars

TypeOK ==
  /\ pc \in {"idle", "GetDoc", "ReadAll", "Contains", "getTemplate", "getTemplateReadAll",
             "Parse", "Execute", "done"}
  /\ docId \in DocIds
  /\ responses \in 0..1

\* ------------------------------------------------------------------ properties
Status == ret.resp.StatusCode
Body == ret.resp.Body
HasDot(id) == \E i \in 1..Len(id) : id[i] = Dot

\* the fetch of the requested document failed with error e
DocFetchFailed(e) == pc = "done" /\ rev = None /\ err = e

\* the first line of raw content as the specification words it: the text before
\* the first line break (LF, CR LF, or a CR that ends the content)
FirstLineOf(c) ==
  LET i == IndexLF(c) IN dropCR(IF i = 0 THEN c ELSE SubSeq(c, 1, i - 1))

AllFour(src) ==
  \A f \in {"{{.Title}}", "{{.DocBody}}", "{{.Timestamp}}", "{{.Version}}"} :
    \E i \in 1..Len(src) : src[i] = f

\* the templated branch ran to its successful end
TemplatedOk ==
  pc = "done" /\ ~HasDot(docId) /\ b # None /\ err = Nil

\* the templated branch failed at the template fetch, read, parse or execution
TemplatedFailed ==
  pc = "done" /\ parsed # None /\ err # Nil

\* C1: a document fetch that fails with a backend failure (StorageUnavailable)
\* is answered with status 500 and an empty body.
C1_BackendFailureIs500 ==
  DocFetchFailed("StorageUnavailable") => Status = 500 /\ Body = <<>>

\* C2: a document fetch that fails with NotFound is answered with status 404 and
\* an empty body; nothing was rendered and the template was not fetched.
C2_NotFoundIs404 ==
  DocFetchFailed("NotFound") =>
    /\ Status = 404
    /\ Body = <<>>
    /\ parsed = None
    /\ tmplDoc = None /\ tmpl = None
    /\ fetches = <<docId>>

C2_Witness == DocFetchFailed("NotFound") /\ Status = 404

\* C3: a docId containing "." whose fetch and read succeeded is answered with
\* status 200, Content-Type text/html and the stored bytes as they are; nothing
\* was rendered and the template was not fetched.
C3_RawVerbatim ==
  (pc = "done" /\ HasDot(docId) /\ doc # None) =>
    /\ Status = 200
    /\ ret.resp.Headers = {<<"Content-Type", "text/html">>}
    /\ Body = rev[1].body
    /\ parsed = None
    /\ fetches = <<docId>>

C3_Witness ==
  /\ pc = "done" /\ HasDot(docId) /\ doc # None
  /\ Body # <<>> /\ ToHTML(rev[1].body) # rev[1].body

\* C4: a templated request whose every step succeeded is answered with status
\* 200, Content-Type text/html, and the template executed with Title = the first
\* line of the stored content, DocBody = its rendered HTML, Timestamp = the
\* revision's formatted timestamp and Version = the revision's number; with all
\* four placeholders in the template the body contains the four values.
C4_PageFromFirstLine ==
  TemplatedOk =>
    LET c == rev[1].body
        m == [Title |-> FirstLineOf(c), DocBody |-> ToHTML(c),
              Timestamp |-> FormatRFC850(rev[1].meta.Timestamp),
              Version |-> rev[1].meta.Id]
    IN /\ Status = 200
       /\ ret.resp.Headers = {<<"Content-Type", "text/html">>}
       /\ Body = Execute(Parse(tmplDoc[1].body).tree, m).out
       /\ AllFour(tmplDoc[1].body) =>
            /\ Contains(Body, m.Title)
            /\ Contains(Body, m.DocBody)
            /\ Contains(Body, m.Timestamp)
            /\ Contains(Body, Itoa(m.Version))

\* C5: a failure of the template fetch, read, parse or execution is answered
\* with status 500 and an empty body, whatever execution had written, and the
\* request has had exactly one response.
C5_TemplateFailureIs500 ==
  TemplatedFailed => Status = 500 /\ Body = <<>> /\ responses = 1

C5_Witness == TemplatedFailed /\ b # None /\ b[1] # <<>> /\ Status = 500

\* C6: the title handed to the template is the first line of the raw stored
\* content: all of a single-line content, the text before the first line break
\* of a multi-line content, empty for empty content.
C6_TitleIsFirstLine ==
  meta # None => meta[1].Title = FirstLineOf(rev[1].body)

\* C7: every response has a status in {200, 404, 500}; a 200 carries
\* Content-Type text/html and is not base64 encoded; any other has an empty body.
C7_ResponseShape ==
  pc = "done" =>
    /\ Status \in {200, 404, 500}
    /\ Status = 200 =>
         /\ ret.resp.Headers = {<<"Content-Type", "text/html">>}
         /\ ret.resp.IsBase64Encoded = FALSE
    /\ Status # 200 => Body = <<>>

C7_Witness == pc = "done" /\ Status = 200 /\ ~HasDot(docId) /\ Body # <<>>

\* C8: every failure response is preceded by a diagnostic log entry.
C8_EveryFailureLogged ==
  (pc = "done" /\ Status # 200) => Len(logs) >= 1

\* C9: within a request the document is fetched exactly once and first, the
\* template at most once, only after the document was read and only for a docId
\* without "."; a request that parses a template has fetched it itself; a request
\* makes at most two fetches and ends with exactly one response.
C9_FetchDiscipline ==
  /\ Len(fetches) <= 2
  /\ Len(fetches) >= 1 => fetches[1] = docId
  /\ Len(fetches) = 2 => fetches[2] = tmplDocName /\ doc # None /\ ~HasDot(docId)
  /\ pc \notin {"idle", "GetDoc"} => Len(fetches) >= 1
  /\ tmplDoc # None => Len(fetches) = 2
  /\ tmpl # None => tmpl[1] = Parse(tmplDoc[1].body).tree
  /\ pc = "done" => responses = 1
  /\ pc \notin {"idle", "done"} => responses = 0

C9_Witness == pc = "done" /\ Len(fetches) = 2 /\ tmpl # None /\ Status = 200

\* C10: the error returned with the response is non-nil exactly when the status
\* is 500.
C10_ErrIff500 ==
  pc = "done" => (ret.err # Nil <=> Status = 500)

C10_Witness == pc = "done" /\ Status = 500 /\ ret.err # Nil /\ doc = None /\ rev # None

====
